---- MODULE Spec2Model ----
(***************************************************************************)
(* A model of the ComicWiki metadata source (src/__init__.py):             *)
(* ComicWiki.identify (discovery of candidate links, the staggered spawn   *)
(* of one Worker thread per candidate, the join-poll loop) and Worker.run  *)
(* / Worker.get_details (fetch, extraction, publication of one record),    *)
(* and ComicWiki.download_cover with the cover url cache.                  *)
(*                                                                         *)
(* Python values are modelled as follows.  A text that the code edits      *)
(* character by character (title, author) is a sequence of one-character   *)
(* strings; the code only tests such arguments for truthiness, so None and *)
(* the empty text/list are both the empty sequence.  An opaque text (a     *)
(* link, an identifier value) is a string.  A dict or an object whose      *)
(* attributes may be absent is a function whose DOMAIN holds the keys      *)
(* that are set.  Python lists are sequences, so Python index k is k+1.    *)
(***************************************************************************)
EXTENDS Integers, Sequences, FiniteSets, TLC

(* Bounds of the model. *)
\* longest search-results page (number of hrefs) served in SpecDiscovery
MaxPageLen == 5
\* longest search-results page served in Spec, where every link gets a thread
MaxResults == 1
\* most candidate links (threads) of a run of Spec
MaxCandidates == 3

(* Program constants. *)
\* google_nodes[:4], lines 74 and 87
HarvestCap == 4

\* None, '' and [] : all falsy, lines 66 and 79
Falsy == << >>

\* ComicWiki.BASE_URL, kept as one token
BASE_URL == << "https://www.google.com/search?q=site:comicwiki.dk " >>

(* The inputs identify is called with: SpecDiscovery draws from Titles,      *)
(* AuthorLists and IdentifierDicts, Spec from the Some... subsets.          *)
Titles == { Falsy, << "K", "l", "o" >>, << "a", " ", "b", "-", "c" >> }

AuthorLists == { Falsy, << << "R", " ", "L" >> >>, << << "H", "-", "G" >>, << "X" >> >> }

\* the comicwiki identifier is used as a link (line 60), so it may be one that a
\* search finds as well
IdentifierDicts == { << >>, [comicwiki |-> "u1"], [isbn |-> "9788711222222"] }

SomeTitles == { Falsy, << "K", "l", "o" >> }

SomeAuthorLists == { Falsy, << << "R", " ", "L" >> >> }

SomeIdentifierDicts == { << >>, [comicwiki |-> "id0"] }

\* what an <a href> of a results page can be: a link or the placeholder anchor
Hrefs == { "#", "u1", "u2" }

RECURSIVE SeqsUpTo(_, _)
SeqsUpTo(S, n) ==
    IF n = 0 THEN { << >> }
    ELSE LET shorter == SeqsUpTo(S, n - 1)
         IN  shorter \cup { Append(s, x) : s \in { t \in shorter : Len(t) = n - 1 }, x \in S }

\* the pages the search engine may answer with
AllPages == SeqsUpTo(Hrefs, MaxPageLen)

\* the shorter pages of Spec, with one link besides the placeholder
SmallPages == SeqsUpTo({ "#", "u1" }, MaxResults)

\* how a detail-page fetch and parse can end, lines 239-267
FetchOutcomes == { "ok", "http404", "timeout", "transport_error", "parse_error" }

VARIABLES
    title, authors, identifiers,   \* arguments of identify
    abort,                         \* the abort Event
    pc,                            \* where identify is
    ret,                           \* how identify ended ("running" until then)
    matches, google_matches, google_nodes,   \* locals of identify
    fetchLog,                      \* urls identify handed to br.open_novisit
    workers,                       \* the Worker objects, line 98
    wstate,                        \* each thread: new, fetching, putting, abandoned, dead
    wi,                            \* position of `for w in workers`
    a_worker_is_alive,
    result_queue,
    wbody,                         \* history: the page each worker fetched and parsed
    wfields,                       \* title, authors, isbn, ... of each Worker object
    cover_cache,                   \* the plugin's identifier -> cover url cache
    dpc,                           \* where download_cover is ("none": not called)
    cached_url, results,           \* locals of download_cover
    cover_queue,                   \* the result_queue download_cover is given
    abortSetAt,                    \* history: Phase(pc) at the moment abort was set
    abortSeen,                     \* history: the wait loop read abort as set
    fetchedAfterAbort              \* history: workers whose fetch ended after abort

vars == << title, authors, identifiers, abort, pc, ret, matches, google_matches,
           google_nodes, fetchLog, workers, wstate, wi, a_worker_is_alive,
           result_queue, abortSetAt, abortSeen, fetchedAfterAbort, wbody, wfields,
           cover_cache, dpc, cached_url, results, cover_queue >>

\* what the Worker threads own besides their state
wdata == << wbody, wfields, cover_cache >>

\* what download_cover owns
dcvars == << dpc, cached_url, results, cover_queue >>

args == << title, authors, identifiers >>

(***************************************************************************)
(* Pure helpers                                                            *)
(***************************************************************************)
Min(a, b) == IF a < b THEN a ELSE b

\* str.replace(old, new) for one-character old and new
Replace(s, old, new) == [k \in 1..Len(s) |-> IF s[k] = old THEN new ELSE s[k]]

\* dict.get(key, None) tested for truthiness: the value if set and non-empty
GetTruthy(d, key) ==
    IF key \in DOMAIN d /\ d[key] # "" THEN << d[key] >> ELSE << >>

\* line 69
TitleQuery(t) == BASE_URL \o Replace(Replace(t, " ", "+"), "-", "+")

\* line 82
AuthorTitleQuery(a, t) ==
    BASE_URL \o Replace(a[1], " ", "+") \o << "+" >> \o Replace(Replace(t, " ", "+"), "-", "+")

\* variant of Harvest: the slice [:4] left out
HarvestNoCap(nodes) == SelectSeq(nodes, LAMBDA u : u # "#")

\* lines 74-76 and 87-89: for url in google_nodes[:4]: if url != "#": append
Harvest(nodes) ==
    SelectSeq(SubSeq(nodes, 1, Min(HarvestCap, Len(nodes))), LAMBDA u : u # "#")

\* variant of MakeWorkers: enumerate(matches, 1)
MakeWorkersFromOne(m) == [k \in 1..Len(m) |-> [url |-> m[k], relevance |-> k]]

\* variant of MakeWorkers: enumerate(matches[1:])
MakeWorkersSkipFirst(m) ==
    [k \in 1..(Len(m) - 1) |-> [url |-> m[k + 1], relevance |-> k - 1]]

\* line 98: [Worker(url, ..., i, self) for i, url in enumerate(matches)]
MakeWorkers(m) == [k \in 1..Len(m) |-> [url |-> m[k], relevance |-> k - 1]]

(***************************************************************************)
(* Texts of a detail page.  A text is a sequence of one-character strings; *)
(* a node without text (lxml's .text is None) is None.  The result of an *)
(* extraction step is a sequence that is empty while the attribute is      *)
(* unset or falsy and else holds the value.                                *)
(***************************************************************************)
\* None, where the other values are texts
None == << "None" >>

WhiteSpace == { " ", "\t", "\n" }

Digits == { "0", "1", "2", "3", "4", "5", "6", "7", "8", "9" }

RECURSIVE LStrip(_)
LStrip(s) == IF s # << >> /\ s[1] \in WhiteSpace THEN LStrip(Tail(s)) ELSE s

RECURSIVE RStrip(_)
RStrip(s) ==
    IF s # << >> /\ s[Len(s)] \in WhiteSpace THEN RStrip(SubSeq(s, 1, Len(s) - 1)) ELSE s

\* str.strip()
Strip(s) == RStrip(LStrip(s))

\* str.replace(old, new) for a non-empty old: leftmost matches, not overlapping
RECURSIVE PyReplace(_, _, _)
PyReplace(s, old, new) ==
    IF Len(s) < Len(old) THEN s
    ELSE IF SubSeq(s, 1, Len(old)) = old
         THEN new \o PyReplace(SubSeq(s, Len(old) + 1, Len(s)), old, new)
         ELSE << s[1] >> \o PyReplace(Tail(s), old, new)

\* str.split(c) for a one-character separator: empty pieces are kept
RECURSIVE Split(_, _)
Split(s, c) ==
    IF \E i \in 1..Len(s) : s[i] = c
    THEN LET i == CHOOSE j \in 1..Len(s) : s[j] = c /\ \A h \in 1..(j - 1) : s[h] # c
         IN  << SubSeq(s, 1, i - 1) >> \o Split(SubSeq(s, i + 1, Len(s)), c)
    ELSE << s >>

\* lines 314-315: while comments.find('  ') >= 0: replace('  ', ' ')
RECURSIVE CollapseSpaces(_)
CollapseSpaces(s) ==
    IF \E i \in 1..(Len(s) - 1) : s[i] = " " /\ s[i + 1] = " "
    THEN CollapseSpaces(PyReplace(s, << " ", " " >>, << " " >>))
    ELSE s

\* whether int(tok) succeeds: optional white space around an optional sign and
\* at least one digit (the underscore grouping of Python literals is left out)
IsInt(tok) ==
    LET t == Strip(tok)
        d == IF t # << >> /\ t[1] \in { "+", "-" } THEN Tail(t) ELSE t
    IN  d # << >> /\ \A i \in 1..Len(d) : d[i] \in Digits

DigitValue(c) ==
    CASE c = "0" -> 0 [] c = "1" -> 1 [] c = "2" -> 2 [] c = "3" -> 3 [] c = "4" -> 4
      [] c = "5" -> 5 [] c = "6" -> 6 [] c = "7" -> 7 [] c = "8" -> 8 [] c = "9" -> 9

RECURSIVE DigitsValue(_)
DigitsValue(d) ==
    IF d = << >> THEN 0 ELSE 10 * DigitsValue(SubSeq(d, 1, Len(d) - 1)) + DigitValue(d[Len(d)])

\* int(tok), where IsInt(tok)
ToInt(tok) ==
    LET t == Strip(tok)
    IN  IF t[1] = "-" THEN 0 - DigitsValue(Tail(t))
        ELSE IF t[1] = "+" THEN DigitsValue(Tail(t))
        ELSE DigitsValue(t)

\* the result of an xpath query: the nodes' texts, or an exception
Found(nodes) == [raises |-> FALSE, nodes |-> nodes]

Broken == [raises |-> TRUE, nodes |-> << >>]

\* lines 270-274: title_node[0].text.strip()
TitleStep(q) ==
    IF q.raises \/ q.nodes = << >> THEN << >>
    ELSE IF q.nodes[1] = None \/ Strip(q.nodes[1]) = << >> THEN << >>
    ELSE << Strip(q.nodes[1]) >>

\* lines 281-284 and 286-289: append the stripped texts that are new
RECURSIVE AppendNew(_, _)
AppendNew(acc, nodes) ==
    IF nodes = << >> THEN acc
    ELSE LET t == Strip(Head(nodes))
         IN  IF Head(nodes) # None /\ \A i \in 1..Len(acc) : acc[i] # t
             THEN AppendNew(Append(acc, t), Tail(nodes))
             ELSE AppendNew(acc, Tail(nodes))

\* lines 277-292: self.authors starts as [] (line 207) and is None on failure
AuthorsStep(q, designers) ==
    IF q.raises \/ designers.raises THEN << >>
    ELSE LET found == AppendNew(AppendNew(<< >>, q.nodes), designers.nodes)
         IN  IF found = << >> THEN << >> ELSE << found >>

\* lines 295-301; unlike the other steps this one may leave an empty text
IsbnStep(q) ==
    IF q.raises \/ q.nodes = << >> THEN << >>
    ELSE IF q.nodes[1] = None THEN << >>
    ELSE << PyReplace(PyReplace(PyReplace(Strip(q.nodes[1]), << " " >>, << >>),
                                << "I", "S", "B", "N" >>, << >>), << "-" >>, << >>) >>

\* sanitize_comments_html belongs to the host; it is taken to keep the text
sanitize_comments_html(c) == c

RECURSIVE JoinComments(_)
JoinComments(nodes) ==
    IF nodes = << >> THEN << >>
    ELSE sanitize_comments_html(CollapseSpaces(Strip(Head(nodes)))) \o << " " >>
            \o JoinComments(Tail(nodes))

\* lines 304-321: the nodes' markup, each followed by a space
CommentsStep(q) ==
    IF q.raises \/ JoinComments(q.nodes) = << >> THEN << >> ELSE << JoinComments(q.nodes) >>

\* lines 324-327
CoverStep(q) ==
    IF q.raises \/ q.nodes = << >> THEN << >>
    ELSE << << "https://comicwiki.dk" >> \o q.nodes[1] >>

\* lines 335-340
PublisherStep(q) ==
    IF q.raises \/ q.nodes = << >> THEN << >>
    ELSE IF q.nodes[1] = None \/ Strip(q.nodes[1]) = << >> THEN << >>
    ELSE << Strip(q.nodes[1]) >>

\* lines 343-347: series_node[0].text, as it is
SeriesStep(q) ==
    IF q.raises \/ q.nodes = << >> THEN << >>
    ELSE IF q.nodes[1] \in { None, << >> } THEN << >>
    ELSE << q.nodes[1] >>

\* lines 345, 348-349: both queries run before either attribute is set
SeriesIndexStep(q) ==
    IF q.raises \/ q.nr = << >> THEN << >>
    ELSE IF q.nr[1] \in { None, << >> } THEN << >>
    ELSE << q.nr[1] >>

\* line 361, for an item with text
YearTokens(text) ==
    Split(PyReplace(PyReplace(Strip(text), << ":" >>, << >>), << "," >>, << >>), " ")

\* lines 359-363: the tokens int() is applied to, in order; an item without
\* text repeats the tokens of the item before it
RECURSIVE ReleaseTokens(_, _)
ReleaseTokens(items, years) ==
    IF items = << >> THEN << >>
    ELSE LET now == IF Head(items) # None THEN YearTokens(Head(items)) ELSE years
         IN  now \o ReleaseTokens(Tail(items), now)

RECURSIVE MinOf(_)
MinOf(ns) == IF Len(ns) = 1 THEN ns[1] ELSE Min(ns[1], MinOf(Tail(ns)))

\* line 368: strptime('01-01-' + str(y), '%d-%m-%Y') takes four digits and
\* no year 0
StrptimeAccepts(y) == y >= 1000 /\ y <= 9999

\* lines 355-370: one token int() rejects, or a minimum strptime rejects, raises
\* and leaves pubdate None
PubDate(q) ==
    IF q.raises THEN << >>
    ELSE LET toks == ReleaseTokens(q.nodes, << >>)
         IN  IF toks = << >> \/ \E i \in 1..Len(toks) : ~IsInt(toks[i]) THEN << >>
             ELSE LET y == MinOf([i \in 1..Len(toks) |-> ToInt(toks[i])])
                  IN  IF StrptimeAccepts(y) THEN << [year |-> y, month |-> 1, day |-> 1] >>
                      ELSE << >>

\* a key with its value, or nothing
Opt(key, o) == IF o = << >> THEN << >> ELSE (key :> o[1])

\* variant of GetDetails: a failed title step ends the extraction
GetDetailsTitleFatal(body) ==
    IF TitleStep(body.h1) = << >> THEN << >>
    ELSE Opt("title", TitleStep(body.h1))
      @@ Opt("authors", AuthorsStep(body.author, body.designer))
      @@ Opt("isbn", IsbnStep(body.isbn))
      @@ Opt("comments", CommentsStep(body.comment))
      @@ Opt("cover_url", CoverStep(body.image))
      @@ Opt("publisher", PublisherStep(body.publisher))
      @@ Opt("series", SeriesStep(body.series))
      @@ Opt("series_index", SeriesIndexStep(body.series))
      @@ Opt("pubdate", PubDate(body.year))

\* lines 269-370: the attributes of the Worker after the extraction steps
GetDetails(body) ==
       Opt("title", TitleStep(body.h1))
    @@ Opt("authors", AuthorsStep(body.author, body.designer))
    @@ Opt("isbn", IsbnStep(body.isbn))
    @@ Opt("comments", CommentsStep(body.comment))
    @@ Opt("cover_url", CoverStep(body.image))
    @@ Opt("publisher", PublisherStep(body.publisher))
    @@ Opt("series", SeriesStep(body.series))
    @@ Opt("series_index", SeriesIndexStep(body.series))
    @@ Opt("pubdate", PubDate(body.year))

\* the key a Worker registers its cover under, line 329: self.isbn
IsbnKey(fields) == IF "isbn" \in DOMAIN fields THEN fields.isbn ELSE None

\* variant of Register: the cover is not entered in the cache
RegisterSkipped(cache, fields) == cache

\* line 329: cache_identifier_to_cover_url(self.isbn, self.cover_url); the
\* later writer of a key wins
Register(cache, fields) ==
    IF "cover_url" \in DOMAIN fields
    THEN (IsbnKey(fields) :> fields.cover_url) @@ cache
    ELSE cache

(***************************************************************************)
(* Detail pages.  A page is its raw body (bytes, kept as a few chunks) and *)
(* what each xpath query of get_details finds in it.                       *)
(***************************************************************************)
\* the literal of line 258, a str
Marker404 == [type |-> "str", text |-> << "<title>404 - " >>]

Bytes(chunks) == [type |-> "bytes", text |-> chunks]

\* a == b of Python 3 for a str or bytes a and b: never true across the types
PyEq(a, b) == a.type = b.type /\ a.text = b.text

\* the body holds the marker somewhere
HoldsMarker404(raw) == \E i \in 1..Len(raw.text) : raw.text[i] = Marker404.text[1]

RawPlain == Bytes(<< "<html><head>", "<title>Soltemplet</title>", "</head>...</html>" >>)

RawNotFound == Bytes(<< "<html><head>", "<title>404 - ", "Not Found</title>", "</head>...</html>" >>)

RawMarkerOnly == Bytes(<< "<title>404 - " >>)

Soltemplet == << " ", "S", "o", "l" >>

Herge == << "H", "e", "r" >>

Bob == << "B", "o", "b" >>

IsbnText == << "I", "S", "B", "N", " ", "8", "7", "-", "1", "1" >>

OtherIsbnText == << "I", "S", "B", "N", " ", "9", "7", "8" >>

Blurb == << "<", "p", ">", "a", " ", " ", " ", "b" >>

CoverSrc == << "/images/a.jpg" >>

OtherCoverSrc == << "/images/b.jpg" >>

Carlsen == << "C", "a", "r", " " >>

Tintin == << "T", "i", "n" >>

Nr == << "1", "4" >>

Year2011 == << "2", "0", "1", "1" >>

Year2015 == << "2", "0", "1", "5" >>

Genoptryk == << "g", "e", "n" >>

\* a page where every step finds what it looks for
PlainBody ==
    [raw |-> RawPlain,
     h1 |-> Found(<< Soltemplet >>),
     author |-> Found(<< Herge >>),
     designer |-> Found(<< << " " >> \o Herge, None, Bob >>),
     isbn |-> Found(<< IsbnText >>),
     comment |-> Found(<< Blurb >>),
     image |-> Found(<< CoverSrc >>),
     publisher |-> Found(<< Carlsen >>),
     series |-> [raises |-> FALSE, nodes |-> << Tintin >>, nr |-> << Nr >>],
     year |-> Found(<< Year2011 >>)]

PlainBodies == { PlainBody }

\* pages on which any subset of the steps fails or finds nothing
FailureBodies ==
    { [raw |-> RawPlain, h1 |-> h, author |-> a, designer |-> PlainBody.designer,
       isbn |-> i, comment |-> c, image |-> g, publisher |-> p, series |-> s, year |-> y] :
        h \in { Found(<< Soltemplet >>), Found(<< >>), Broken },
        a \in { Found(<< Herge >>), Found(<< >>), Broken },
        i \in { Found(<< IsbnText >>), Found(<< >>), Broken },
        c \in { Found(<< Blurb >>), Broken },
        g \in { Found(<< CoverSrc >>), Found(<< >>), Broken },
        p \in { Found(<< Carlsen >>), Found(<< None >>), Broken },
        s \in { PlainBody.series,
                [raises |-> FALSE, nodes |-> << >>, nr |-> << Nr >>],
                [raises |-> TRUE, nodes |-> << >>, nr |-> << >>] },
        y \in { Found(<< Year2011 >>), Found(<< Year2011, Genoptryk \o << " " >> \o Year2015 >>),
                Broken } }

\* the same page served with and without the 404 title
MarkerBodies ==
    { [PlainBody EXCEPT !.raw = r] : r \in { RawPlain, RawNotFound, RawMarkerOnly } }

\* most release items of a page
MaxItems == 2

Words ==
    { Year2011, Year2015, Genoptryk, << "1", ",", "9", "8", "7", ":" >>, << "8", "5" >>, << >> }

\* the texts of a release item: None, or one or two words with a space between
ItemTexts == { None } \cup Words \cup { a \o << " " >> \o b : a \in Words, b \in Words }

YearBodies ==
    { [PlainBody EXCEPT !.year = Found(items)] : items \in SeqsUpTo(ItemTexts, MaxItems) }

\* the pages a lone worker is served in SpecWorker
DetailPages == FailureBodies \cup MarkerBodies \cup YearBodies

\* lines 372-425: the Metadata a worker publishes, an attribute being set only
\* from a truthy attribute of the Worker.  Two entries are history and no field
\* of the Metadata: `by`, the publishing worker's position in `workers`, and
\* `afterReturn`, whether identify had returned at the put
MetaData(k) ==
    LET w == workers[k]
        f == wfields[k]
        Attr(key) == IF key \in DOMAIN f THEN (key :> f[key]) ELSE << >>
    IN  [by |-> k, afterReturn |-> (pc = "done"), comicwiki |-> w.url]
        @@ (IF w.relevance # 0 THEN [source_relevance |-> w.relevance] ELSE << >>)
        @@ Attr("title") @@ Attr("authors")
        @@ (IF "isbn" \in DOMAIN f /\ f.isbn # << >> THEN [isbn |-> f.isbn] ELSE << >>)
        @@ Attr("cover_url") @@ Attr("publisher") @@ Attr("comments")
        @@ (IF "series" \in DOMAIN f THEN Attr("series") @@ Attr("series_index") ELSE << >>)
        @@ Attr("pubdate")

\* the part of identify a pc lies in: discovery and the check of line 91,
\* the spawn loop, the wait loop
Phase(p) ==
    IF p \in { "start", "title", "authors", "abortcheck" } THEN "discovery"
    ELSE IF p = "spawn" THEN "spawn" ELSE "wait"

\* Thread.is_alive()
IsAlive(k) == wstate[k] \in { "fetching", "putting" }

(***************************************************************************)
(* Initial state: identify has just been called                            *)
(***************************************************************************)
InitWith(titles, authorLists, identifierDicts) ==
    /\ title \in titles
    /\ authors \in authorLists
    /\ identifiers \in identifierDicts
    /\ abort \in BOOLEAN
    /\ abortSetAt = IF abort THEN "before_call" ELSE "never"
    /\ pc = "start"
    /\ ret = "running"
    /\ matches = << >>
    /\ google_matches = << >>
    /\ google_nodes = << >>
    /\ fetchLog = << >>
    /\ workers = << >>
    /\ wstate = << >>
    /\ wi = 1
    /\ a_worker_is_alive = FALSE
    /\ result_queue = << >>
    /\ abortSeen = FALSE
    /\ fetchedAfterAbort = { }
    /\ wbody = << >>
    /\ wfields = << >>
    /\ cover_cache = << >>
    /\ dpc = "none"
    /\ cached_url = None
    /\ results = << >>
    /\ cover_queue = << >>

Init == InitWith(SomeTitles, SomeAuthorLists, SomeIdentifierDicts)

InitDiscovery == InitWith(Titles, AuthorLists, IdentifierDicts)

(***************************************************************************)
(* ComicWiki.identify                                                      *)
(***************************************************************************)
\* lines 53-63
AddIdentifier ==
    /\ pc = "start"
    /\ matches' = GetTruthy(identifiers, "comicwiki")
    /\ google_matches' = << >>
    /\ pc' = "title"
    /\ UNCHANGED << args, wdata, dcvars, abort, ret, google_nodes, fetchLog, workers, wstate, wi,
                    a_worker_is_alive, result_queue, abortSetAt, abortSeen,
                    fetchedAfterAbort >>

\* variant of SearchTitle: abort is read before the fetch
SearchTitleUnlessAborted(pages, most) ==
    /\ pc = "title"
    /\ IF abort
       THEN /\ pc' = "done"
            /\ ret' = "abort_before_spawn"
            /\ UNCHANGED << google_matches, fetchLog, google_nodes, matches >>
       ELSE IF title = Falsy
       THEN /\ pc' = "authors"
            /\ UNCHANGED << google_matches, fetchLog, google_nodes, matches, ret >>
       ELSE /\ google_matches' = Append(google_matches, TitleQuery(title))
            /\ fetchLog' = Append(fetchLog, google_matches'[1])
            /\ \/ \E page \in pages :
                    /\ Len(matches) + Len(Harvest(page)) <= most
                    /\ google_nodes' = page
                    /\ matches' = matches \o Harvest(page)
                    /\ pc' = "authors"
                    /\ ret' = ret
               \/ /\ pc' = "done"
                  /\ ret' = "raised"
                  /\ UNCHANGED << google_nodes, matches >>
    /\ UNCHANGED << args, wdata, dcvars, abort, workers, wstate, wi, a_worker_is_alive,
                    result_queue, abortSetAt, abortSeen, fetchedAfterAbort >>

\* lines 66-76; an exception of open_novisit, read or parse leaves identify.
\* `pages` are the pages the search may answer with, `most` bounds the
\* candidates of the run
SearchTitle(pages, most) ==
    /\ pc = "title"
    /\ IF title = Falsy
       THEN /\ pc' = "authors"
            /\ UNCHANGED << google_matches, fetchLog, google_nodes, matches, ret >>
       ELSE /\ google_matches' = Append(google_matches, TitleQuery(title))
            /\ fetchLog' = Append(fetchLog, google_matches'[1])
            /\ \/ \E page \in pages :
                    /\ Len(matches) + Len(Harvest(page)) <= most
                    /\ google_nodes' = page
                    /\ matches' = matches \o Harvest(page)
                    /\ pc' = "authors"
                    /\ ret' = ret
               \/ /\ pc' = "done"
                  /\ ret' = "raised"
                  /\ UNCHANGED << google_nodes, matches >>
    /\ UNCHANGED << args, wdata, dcvars, abort, workers, wstate, wi, a_worker_is_alive,
                    result_queue, abortSetAt, abortSeen, fetchedAfterAbort >>

\* lines 79-89; line 83 opens google_matches[0]
SearchAuthors(pages, most) ==
    /\ pc = "authors"
    /\ IF title = Falsy \/ authors = Falsy
       THEN /\ pc' = "abortcheck"
            /\ UNCHANGED << google_matches, fetchLog, google_nodes, matches, ret >>
       ELSE /\ google_matches' = Append(google_matches, AuthorTitleQuery(authors, title))
            /\ fetchLog' = Append(fetchLog, google_matches'[1])
            /\ \/ \E page \in pages :
                    /\ Len(matches) + Len(Harvest(page)) <= most
                    /\ google_nodes' = page
                    /\ matches' = matches \o Harvest(page)
                    /\ pc' = "abortcheck"
                    /\ ret' = ret
               \/ /\ pc' = "done"
                  /\ ret' = "raised"
                  /\ UNCHANGED << google_nodes, matches >>
    /\ UNCHANGED << args, wdata, dcvars, abort, workers, wstate, wi, a_worker_is_alive,
                    result_queue, abortSetAt, abortSeen, fetchedAfterAbort >>

\* variant of AbortCheck: the test of line 91 left out
AbortCheckIgnored ==
    /\ pc = "abortcheck"
    /\ workers' = MakeWorkers(matches)
    /\ wstate' = [k \in 1..Len(matches) |-> "new"]
    /\ wi' = 1
    /\ pc' = IF Len(matches) = 0 THEN "while" ELSE "spawn"
    /\ UNCHANGED << args, wdata, dcvars, abort, ret, matches, google_matches, google_nodes, fetchLog,
                    a_worker_is_alive, result_queue, abortSetAt, abortSeen,
                    fetchedAfterAbort >>

\* lines 91-98
AbortCheck ==
    /\ pc = "abortcheck"
    /\ IF abort
       THEN /\ pc' = "done"
            /\ ret' = "abort_before_spawn"
            /\ UNCHANGED << workers, wstate, wi >>
       ELSE /\ workers' = MakeWorkers(matches)
            /\ wstate' = [k \in 1..Len(workers') |-> "new"]
            /\ wi' = 1
            /\ pc' = IF Len(workers') = 0 THEN "while" ELSE "spawn"
            /\ ret' = ret
    /\ UNCHANGED << args, wdata, dcvars, abort, matches, google_matches, google_nodes, fetchLog,
                    a_worker_is_alive, result_queue, abortSetAt, abortSeen,
                    fetchedAfterAbort >>

\* variant of Spawn: the loop breaks when abort is set
SpawnUnlessAborted ==
    /\ pc = "spawn"
    /\ IF abort
       THEN /\ pc' = "while"
            /\ wi' = 1
            /\ wstate' = wstate
       ELSE /\ wstate' = [wstate EXCEPT ![wi] = "fetching"]
            /\ IF wi = Len(workers)
               THEN pc' = "while" /\ wi' = 1
               ELSE pc' = "spawn" /\ wi' = wi + 1
    /\ UNCHANGED << args, wdata, dcvars, abort, ret, matches, google_matches, google_nodes, fetchLog,
                    workers, a_worker_is_alive, result_queue, abortSetAt, abortSeen,
                    fetchedAfterAbort >>

\* lines 101-104: one turn of the loop, w.start() and the sleep that follows
Spawn ==
    /\ pc = "spawn"
    /\ wstate' = [wstate EXCEPT ![wi] = "fetching"]
    /\ IF wi = Len(workers)
       THEN pc' = "while" /\ wi' = 1
       ELSE pc' = "spawn" /\ wi' = wi + 1
    /\ UNCHANGED << args, wdata, dcvars, abort, ret, matches, google_matches, google_nodes, fetchLog,
                    workers, a_worker_is_alive, result_queue, abortSetAt, abortSeen,
                    fetchedAfterAbort >>

\* lines 106-107 (and 117 when abort is set)
WhileCheck ==
    /\ pc = "while"
    /\ IF abort
       THEN /\ pc' = "done"
            /\ ret' = "abort_in_wait"
            /\ abortSeen' = TRUE
            /\ UNCHANGED << a_worker_is_alive, wi >>
       ELSE /\ a_worker_is_alive' = FALSE
            /\ wi' = 1
            /\ pc' = IF Len(workers) = 0 THEN "after_for" ELSE "join"
            /\ UNCHANGED << ret, abortSeen >>
    /\ UNCHANGED << args, wdata, dcvars, abort, matches, google_matches, google_nodes, fetchLog,
                    workers, wstate, result_queue, abortSetAt, fetchedAfterAbort >>

\* variant of Join: join() without a timeout, which returns when the thread ends
JoinUntilEnded ==
    /\ pc = "join"
    /\ ~IsAlive(wi)
    /\ IF abort
       THEN pc' = "after_for" /\ abortSeen' = TRUE
       ELSE pc' = "alive" /\ abortSeen' = abortSeen
    /\ UNCHANGED << args, wdata, dcvars, abort, ret, matches, google_matches, google_nodes, fetchLog,
                    workers, wstate, wi, a_worker_is_alive, result_queue, abortSetAt,
                    fetchedAfterAbort >>

\* lines 109-111: w.join(0.2) returns (the thread ended or 0.2 s passed), then
\* abort is read
Join ==
    /\ pc = "join"
    /\ IF abort
       THEN pc' = "after_for" /\ abortSeen' = TRUE
       ELSE pc' = "alive" /\ abortSeen' = abortSeen
    /\ UNCHANGED << args, wdata, dcvars, abort, ret, matches, google_matches, google_nodes, fetchLog,
                    workers, wstate, wi, a_worker_is_alive, result_queue, abortSetAt,
                    fetchedAfterAbort >>

\* variant of Alive: is_alive() is not asked
AliveUnasked ==
    /\ pc = "alive"
    /\ a_worker_is_alive' = a_worker_is_alive
    /\ IF wi = Len(workers)
       THEN pc' = "after_for" /\ wi' = wi
       ELSE pc' = "join" /\ wi' = wi + 1
    /\ UNCHANGED << args, wdata, dcvars, abort, ret, matches, google_matches, google_nodes, fetchLog,
                    workers, wstate, result_queue, abortSetAt, abortSeen,
                    fetchedAfterAbort >>

\* lines 112-113, and the step of the for loop
Alive ==
    /\ pc = "alive"
    /\ a_worker_is_alive' = (a_worker_is_alive \/ IsAlive(wi))
    /\ IF wi = Len(workers)
       THEN pc' = "after_for" /\ wi' = wi
       ELSE pc' = "join" /\ wi' = wi + 1
    /\ UNCHANGED << args, wdata, dcvars, abort, ret, matches, google_matches, google_nodes, fetchLog,
                    workers, wstate, result_queue, abortSetAt, abortSeen,
                    fetchedAfterAbort >>

\* lines 114-117
AfterFor ==
    /\ pc = "after_for"
    /\ IF ~a_worker_is_alive
       THEN /\ pc' = "done"
            /\ ret' = IF abortSeen THEN "abort_in_wait" ELSE "all_finished"
       ELSE /\ pc' = "while"
            /\ ret' = ret
    /\ UNCHANGED << args, wdata, dcvars, abort, matches, google_matches, google_nodes, fetchLog,
                    workers, wstate, wi, a_worker_is_alive, result_queue, abortSetAt,
                    abortSeen, fetchedAfterAbort >>

(***************************************************************************)
(* Worker.run / Worker.get_details                                         *)
(***************************************************************************)
\* variant of WorkerFetch: a worker whose fetch or parse failed publishes a
\* record without fields
WorkerFetchPublishing(k, bodies) ==
    /\ k \in 1..Len(workers)
    /\ wstate[k] = "fetching"
    /\ \E outcome \in FetchOutcomes :
          IF outcome = "ok"
          THEN \E body \in bodies :
                  /\ wstate' = [wstate EXCEPT ![k] = "putting"]
                  /\ wbody' = (k :> body) @@ wbody
                  /\ wfields' = (k :> GetDetails(body)) @@ wfields
                  /\ cover_cache' = Register(cover_cache, GetDetails(body))
                  /\ result_queue' = result_queue
          ELSE /\ wstate' = [wstate EXCEPT ![k] = "abandoned"]
               /\ result_queue' = Append(result_queue,
                      [by |-> k, afterReturn |-> (pc = "done"), comicwiki |-> workers[k].url])
               /\ UNCHANGED wdata
    /\ fetchedAfterAbort' = IF abort THEN fetchedAfterAbort \cup { k } ELSE fetchedAfterAbort
    /\ UNCHANGED << args, dcvars, abort, pc, ret, matches, google_matches, google_nodes,
                    fetchLog, workers, wi, a_worker_is_alive, abortSetAt, abortSeen >>

\* lines 239-370: the fetch, the 404 test, the parse and the extraction of the
\* fields with the registration of the cover (line 329); a failed fetch or
\* parse ends the thread (return at 246, 255, 260, 267).  `bodies` are the
\* pages the site may answer with
WorkerFetch(k, bodies) ==
    /\ k \in 1..Len(workers)
    /\ wstate[k] = "fetching"
    /\ \E outcome \in FetchOutcomes :
          IF outcome = "ok"
          THEN \E body \in bodies :
                  IF PyEq(Marker404, body.raw)
                  THEN /\ wstate' = [wstate EXCEPT ![k] = "abandoned"]
                       /\ UNCHANGED wdata
                  ELSE /\ wstate' = [wstate EXCEPT ![k] = "putting"]
                       /\ wbody' = (k :> body) @@ wbody
                       /\ wfields' = (k :> GetDetails(body)) @@ wfields
                       /\ cover_cache' = Register(cover_cache, GetDetails(body))
          ELSE /\ wstate' = [wstate EXCEPT ![k] = "abandoned"]
               /\ UNCHANGED wdata
    /\ fetchedAfterAbort' = IF abort THEN fetchedAfterAbort \cup { k } ELSE fetchedAfterAbort
    /\ UNCHANGED << args, dcvars, abort, pc, ret, matches, google_matches, google_nodes,
                    fetchLog, workers, wi, a_worker_is_alive, result_queue, abortSetAt,
                    abortSeen >>

\* variant of WorkerPut: the thread does not end after the put
WorkerPutAgain(k) ==
    /\ k \in 1..Len(workers)
    /\ wstate[k] = "putting"
    /\ result_queue' = Append(result_queue, MetaData(k))
    /\ UNCHANGED << args, wdata, dcvars, abort, pc, ret, matches, google_matches, google_nodes,
                    fetchLog, workers, wstate, wi, a_worker_is_alive, abortSetAt,
                    abortSeen, fetchedAfterAbort >>

\* lines 372-425: the Metadata is built and put on the queue; the thread ends
WorkerPut(k) ==
    /\ k \in 1..Len(workers)
    /\ wstate[k] = "putting"
    /\ result_queue' = Append(result_queue, MetaData(k))
    /\ wstate' = [wstate EXCEPT ![k] = "dead"]
    /\ UNCHANGED << args, wdata, dcvars, abort, pc, ret, matches, google_matches, google_nodes,
                    fetchLog, workers, wi, a_worker_is_alive, abortSetAt, abortSeen,
                    fetchedAfterAbort >>

(***************************************************************************)
(* ComicWiki.download_cover                                                *)
(***************************************************************************)
\* lines 125-126: the cache entry under identifiers' isbn (under None without)
get_cached_cover_url(ids) ==
    LET isbn == IF "isbn" \in DOMAIN ids THEN ids.isbn ELSE None
    IN  IF isbn \in DOMAIN cover_cache THEN cover_cache[isbn] ELSE None

\* lines 150-153: the first cache hit among the records, in their order
RECURSIVE Scan(_)
Scan(mis) ==
    IF mis = << >> THEN None
    ELSE IF get_cached_cover_url(Head(mis)) # None THEN get_cached_cover_url(Head(mis))
    ELSE Scan(Tail(mis))

\* line 148: the key of the sort is the host's, so any order may come out
Sorted(q) == { [i \in 1..Len(q) |-> q[p[i]]] : p \in Permutations(1..Len(q)) }

\* lines 134-139: the lookup, and the call of identify when it finds nothing
CoverLookup ==
    /\ dpc = "lookup"
    /\ cached_url' = get_cached_cover_url(identifiers)
    /\ IF cached_url' = None
       THEN dpc' = "identify" /\ pc' = "start"
       ELSE dpc' = "check" /\ pc' = pc
    /\ UNCHANGED << args, wdata, abort, ret, matches, google_matches, google_nodes, fetchLog,
                    workers, wstate, wi, a_worker_is_alive, result_queue, results,
                    cover_queue, abortSetAt, abortSeen, fetchedAfterAbort >>

\* lines 138-156, once identify has ended: its exception is not caught; else
\* the abort test, the drain of rq, the sort and the scan
CoverAfterIdentify ==
    /\ dpc = "identify"
    /\ pc = "done"
    /\ IF ret = "raised"
       THEN /\ dpc' = "raised"
            /\ UNCHANGED << result_queue, results, cached_url >>
       ELSE IF abort
       THEN /\ dpc' = "aborted"
            /\ UNCHANGED << result_queue, results, cached_url >>
       ELSE /\ result_queue' = << >>
            /\ results' \in Sorted(result_queue)
            /\ cached_url' = Scan(results')
            /\ dpc' = IF cached_url' = None THEN "no_cover" ELSE "check"
    /\ UNCHANGED << args, wdata, abort, pc, ret, matches, google_matches, google_nodes,
                    fetchLog, workers, wstate, wi, a_worker_is_alive, cover_queue,
                    abortSetAt, abortSeen, fetchedAfterAbort >>

\* lines 158-159
CoverAbortCheck ==
    /\ dpc = "check"
    /\ dpc' = IF abort THEN "aborted" ELSE "fetch"
    /\ UNCHANGED << args, wdata, abort, pc, ret, matches, google_matches, google_nodes,
                    fetchLog, workers, wstate, wi, a_worker_is_alive, result_queue,
                    cached_url, results, cover_queue, abortSetAt, abortSeen,
                    fetchedAfterAbort >>

\* lines 160-166: the image is fetched and put with the plugin, or the fetch
\* raises and the bare except logs it
CoverFetch ==
    /\ dpc = "fetch"
    /\ \/ /\ cover_queue' = Append(cover_queue, [source |-> "self", cdata |-> cached_url])
          /\ dpc' = "delivered"
       \/ /\ cover_queue' = cover_queue
          /\ dpc' = "fetch_failed"
    /\ UNCHANGED << args, wdata, abort, pc, ret, matches, google_matches, google_nodes,
                    fetchLog, workers, wstate, wi, a_worker_is_alive, result_queue,
                    cached_url, results, abortSetAt, abortSeen, fetchedAfterAbort >>

\* the host sets the abort Event while download_cover runs
SetAbortDuringCover ==
    /\ ~abort
    /\ dpc \in { "lookup", "identify", "check", "fetch" }
    /\ abort' = TRUE
    /\ abortSetAt' = IF pc \in { "idle", "done" } THEN "outside_identify" ELSE Phase(pc)
    /\ UNCHANGED << args, wdata, dcvars, pc, ret, matches, google_matches, google_nodes, fetchLog,
                    workers, wstate, wi, a_worker_is_alive, result_queue, abortSeen,
                    fetchedAfterAbort >>

(***************************************************************************)
(* The host                                                                *)
(***************************************************************************)
\* the host sets the abort Event while identify runs
SetAbort ==
    /\ ~abort
    /\ pc # "done"
    /\ abort' = TRUE
    /\ abortSetAt' = Phase(pc)
    /\ UNCHANGED << args, wdata, dcvars, pc, ret, matches, google_matches, google_nodes, fetchLog,
                    workers, wstate, wi, a_worker_is_alive, result_queue, abortSeen,
                    fetchedAfterAbort >>

Next ==
    \/ AddIdentifier
    \/ SearchTitle(SmallPages, MaxCandidates)
    \/ SearchAuthors(SmallPages, MaxCandidates)
    \/ AbortCheck
    \/ Spawn
    \/ WhileCheck
    \/ Join
    \/ Alive
    \/ AfterFor
    \/ \E k \in 1..Len(workers) : WorkerFetch(k, PlainBodies)
    \/ \E k \in 1..Len(workers) : WorkerPut(k)
    \/ SetAbort

Spec == Init /\ [][Next]_vars

\* identify called with a title and no authors
InitLive == InitWith({ << "K", "l", "o" >> }, { Falsy }, SomeIdentifierDicts)

\* the steps of the thread that runs identify
Coordinator ==
    \/ AddIdentifier
    \/ SearchTitle(SmallPages, MaxCandidates)
    \/ SearchAuthors(SmallPages, MaxCandidates)
    \/ AbortCheck
    \/ Spawn
    \/ WhileCheck
    \/ Join
    \/ Alive
    \/ AfterFor

\* Spec with a thread of identify that keeps running: a fetch of identify
\* returns or raises, sleep(0.1) and join(0.2) return.  Nothing is asked of the
\* Workers, which may never end, nor of the host, which may never set abort
SpecLive == InitLive /\ [][Next]_vars /\ WF_vars(Coordinator)

\* discovery alone (lines 53-98), against results pages of up to MaxPageLen hrefs
NextDiscovery ==
    \/ AddIdentifier
    \/ SearchTitle(AllPages, 1 + 2 * HarvestCap)
    \/ SearchAuthors(AllPages, 1 + 2 * HarvestCap)
    \/ AbortCheck

SpecDiscovery == InitDiscovery /\ [][NextDiscovery]_vars

\* one Worker alone (lines 224-425): identify has found one link, has started
\* its Worker and waits; the site answers with any of DetailPages
InitWorker ==
    /\ title = << "K", "l", "o" >>
    /\ authors = Falsy
    /\ identifiers = << >>
    /\ abort = FALSE
    /\ abortSetAt = "never"
    /\ pc = "while"
    /\ ret = "running"
    /\ matches = << "u1" >>
    /\ google_matches = << TitleQuery(title) >>
    /\ google_nodes = << "#", "u1" >>
    /\ fetchLog = << TitleQuery(title) >>
    /\ workers = MakeWorkers(matches)
    /\ wstate = << "fetching" >>
    /\ wi = 1
    /\ a_worker_is_alive = FALSE
    /\ result_queue = << >>
    /\ abortSeen = FALSE
    /\ fetchedAfterAbort = { }
    /\ wbody = << >>
    /\ wfields = << >>
    /\ cover_cache = << >>
    /\ dpc = "none"
    /\ cached_url = None
    /\ results = << >>
    /\ cover_queue = << >>

NextWorker ==
    \/ \E k \in 1..Len(workers) : WorkerFetch(k, DetailPages)
    \/ \E k \in 1..Len(workers) : WorkerPut(k)

SpecWorker == InitWorker /\ [][NextWorker]_vars

\* the identifiers download_cover is called with
CoverIdentifierDicts ==
    { << >>, [isbn |-> IsbnStep(Found(<< IsbnText >>))[1]],
      [comicwiki |-> "u2", isbn |-> IsbnStep(Found(<< OtherIsbnText >>))[1]] }

\* the results pages of SpecCover
CoverPages == { << >>, << "#", "u1" >>, << "u1", "u2" >> }

\* the detail pages of SpecCover: with and without ISBN, with either cover or
\* without
CoverBodies ==
    { [PlainBody EXCEPT !.isbn = Found(<< IsbnText >>), !.image = Found(<< CoverSrc >>)],
      [PlainBody EXCEPT !.isbn = Found(<< IsbnText >>), !.image = Found(<< OtherCoverSrc >>)],
      [PlainBody EXCEPT !.isbn = Found(<< >>), !.image = Found(<< CoverSrc >>)],
      [PlainBody EXCEPT !.isbn = Found(<< IsbnText >>), !.image = Found(<< >>)] }

\* most candidates of a run of SpecCover
MaxCoverCandidates == 2

\* download_cover has just been called (line 129); the cache is empty or holds
\* the cover an earlier call registered
InitCover ==
    /\ title = << "K", "l", "o" >>
    /\ authors = Falsy
    /\ identifiers \in CoverIdentifierDicts
    /\ abort \in BOOLEAN
    /\ abortSetAt = IF abort THEN "before_call" ELSE "never"
    /\ pc = "idle"
    /\ ret = "running"
    /\ matches = << >>
    /\ google_matches = << >>
    /\ google_nodes = << >>
    /\ fetchLog = << >>
    /\ workers = << >>
    /\ wstate = << >>
    /\ wi = 1
    /\ a_worker_is_alive = FALSE
    /\ result_queue = << >>
    /\ abortSeen = FALSE
    /\ fetchedAfterAbort = { }
    /\ wbody = << >>
    /\ wfields = << >>
    /\ cover_cache \in { << >>, Register(<< >>, GetDetails(PlainBody)) }
    /\ dpc = "lookup"
    /\ cached_url = None
    /\ results = << >>
    /\ cover_queue = << >>

NextCover ==
    \/ CoverLookup
    \/ AddIdentifier
    \/ SearchTitle(CoverPages, MaxCoverCandidates)
    \/ SearchAuthors(CoverPages, MaxCoverCandidates)
    \/ AbortCheck
    \/ Spawn
    \/ WhileCheck
    \/ Join
    \/ Alive
    \/ AfterFor
    \/ \E k \in 1..Len(workers) : WorkerFetch(k, CoverBodies)
    \/ \E k \in 1..Len(workers) : WorkerPut(k)
    \/ CoverAfterIdentify
    \/ CoverAbortCheck
    \/ CoverFetch
    \/ SetAbortDuringCover

SpecCover == InitCover /\ [][NextCover]_vars

(***************************************************************************)
(* Properties                                                              *)
(***************************************************************************)
AbortReturns == { "abort_before_spawn", "abort_in_wait" }

\* the records worker k has put on the queue
PutsBy(k) == Cardinality({ n \in 1..Len(result_queue) : result_queue[n].by = k })

\* the candidates that come from the searches: matches without the identifier
SearchLinks == SubSeq(matches, Len(GetTruthy(identifiers, "comicwiki")) + 1, Len(matches))

\* a is b with some entries left out, the order kept
RECURSIVE IsSubseq(_, _)
IsSubseq(a, b) ==
    IF a = << >> THEN TRUE
    ELSE IF b = << >> THEN FALSE
    ELSE IF Head(a) = Head(b) THEN IsSubseq(Tail(a), Tail(b))
    ELSE IsSubseq(a, Tail(b))

\* C1: if abort is set by the time discovery finishes (before the call, or
\* before the check of line 91 is made), identify ends there (or earlier, in a
\* search), no Worker exists or is started, and the result queue stays as it
\* was (empty).
C1_AbortBeforeSpawn ==
    (abort /\ abortSetAt \in { "before_call", "discovery" } /\ Phase(pc) # "discovery")
    => /\ pc = "done"
       /\ ret \in { "abort_before_spawn", "raised" }
       /\ workers = << >>
       /\ wstate = << >>
       /\ result_queue = << >>

C1_Witness ==
    /\ pc = "done"
    /\ ret = "abort_before_spawn"
    /\ abortSetAt = "discovery"
    /\ Len(matches) >= 2

\* C2: every entry of the candidate list is handed to exactly one Worker (the
\* k-th Worker has the k-th candidate, and there are as many Workers as
\* candidates once they are built), every Worker puts at most one record, and
\* the queue never holds more records than there are candidates.
C2_OneWorkerOneRecord ==
    /\ Len(workers) \in { 0, Len(matches) }
    /\ (Phase(pc) # "discovery" /\ ret \notin { "abort_before_spawn", "raised" })
       => Len(workers) = Len(matches)
    /\ \A k \in 1..Len(workers) : workers[k].url = matches[k] /\ PutsBy(k) <= 1
    /\ \A n \in 1..Len(result_queue) : result_queue[n].by \in 1..Len(workers)
    /\ Len(result_queue) <= Len(matches)

C2_Witness ==
    /\ Len(matches) = 3
    /\ Len(result_queue) = 3

\* C3 (as claimed): once identify has returned because abort was set, no record
\* is added by a worker whose fetch was still running when abort was set.
C3_NoPublishAfterAbort ==
    \A n \in 1..Len(result_queue) :
        (ret \in AbortReturns /\ result_queue[n].afterReturn)
        => result_queue[n].by \notin fetchedAfterAbort

\* C3 (amended): after identify has returned because abort was set, the started
\* workers run on: a worker that was still fetching when abort was set may
\* publish afterwards, but every record on the queue comes from a Worker of
\* this call, at most one from each, and none at all if identify returned at
\* the check before the spawn loop.
C3_WorkersRunOn ==
    (pc = "done" /\ ret \in AbortReturns)
    => /\ \A n \in 1..Len(result_queue) : result_queue[n].by \in 1..Len(workers)
       /\ \A k \in 1..Len(workers) : PutsBy(k) <= 1
       /\ (ret = "abort_before_spawn" => result_queue = << >>)

C3_Witness ==
    /\ pc = "done"
    /\ ret = "abort_in_wait"
    /\ \E n \in 1..Len(result_queue) :
          /\ result_queue[n].afterReturn
          /\ result_queue[n].by \in fetchedAfterAbort

\* C4 (as claimed): once abort is set, no Worker that is not started yet is
\* started.
C4_NoStartAfterAbort ==
    [][abort => \A k \in 1..Len(wstate) : wstate[k] = "new" => wstate'[k] = "new"]_vars

\* C4 (amended): abort is read once before the spawn loop (line 91) and not in
\* it: a call that returned at that check has started no Worker, the loop
\* starts the Workers in order, and once the loop is over every Worker has
\* been started, also when abort became set during the loop.
C4_SpawnLoopCompletes ==
    /\ ret = "abort_before_spawn" => wstate = << >>
    /\ pc = "spawn" => \A k \in 1..Len(wstate) : (wstate[k] = "new") <=> (k >= wi)
    /\ (Phase(pc) = "wait" /\ ret \notin { "abort_before_spawn", "raised" })
       => \A k \in 1..Len(wstate) : wstate[k] # "new"

C4_Witness ==
    /\ abortSetAt = "spawn"
    /\ pc = "while"
    /\ Len(wstate) >= 2
    /\ \A k \in 1..Len(wstate) : wstate[k] # "new"

\* C5: a failure of a search fetch or parse never leaves identify as an
\* exception (it costs that batch only).
C5_SearchFailureIsolated == ret # "raised"

\* C6: with a title and no authors, discovery issues exactly one search fetch
\* (none before the title step) and appends at most 4 links, none of them "#",
\* in the order in which they stand on the results page.
C6_TitleOnly ==
    (title # Falsy /\ authors = Falsy)
    => /\ pc \in { "start", "title" } => fetchLog = << >>
       /\ pc \notin { "start", "title" } =>
            /\ Len(fetchLog) = 1
            /\ Len(SearchLinks) <= 4
            /\ \A k \in 1..Len(SearchLinks) : SearchLinks[k] # "#"
            /\ IsSubseq(SearchLinks, google_nodes)

C6_Witness ==
    /\ title # Falsy
    /\ authors = Falsy
    /\ pc = "abortcheck"
    /\ Len(google_nodes) = 5
    /\ google_nodes[5] # "#"
    /\ \E k \in 1..4 : google_nodes[k] = "#"
    /\ Len(SearchLinks) = 3
    /\ SearchLinks[1] # SearchLinks[2]

\* C7: with a title and authors, once identify is past its two search steps it
\* has issued exactly two search fetches, and the candidate list ends with the
\* links of the second batch, after those of the first.
C7_TwoFetchesInOrder ==
    (title # Falsy /\ authors # Falsy /\ pc \notin { "start", "title", "authors" })
    => /\ Len(fetchLog) = 2
       /\ LET second == Harvest(google_nodes)
          IN  /\ Len(second) <= Len(SearchLinks)
              /\ SubSeq(SearchLinks, Len(SearchLinks) - Len(second) + 1, Len(SearchLinks)) = second

\* C8: the second search fetch is issued against the second query (first
\* author and title), not against the title-only query.
C8_SecondFetchUsesSecondQuery ==
    Len(fetchLog) = 2
    => /\ fetchLog[2] = AuthorTitleQuery(authors, title)
       /\ fetchLog[2] # fetchLog[1]

\* C9: if identifiers holds a comicwiki identifier, it is the first entry of
\* the candidate list from line 60 on, and the first Worker is the one for it,
\* with relevance 0.
C9_IdentifierFirst ==
    ("comicwiki" \in DOMAIN identifiers /\ pc # "start")
    => /\ matches # << >>
       /\ matches[1] = identifiers["comicwiki"]
       /\ (Phase(pc) # "discovery" /\ ret \notin { "abort_before_spawn", "raised" })
          => workers # << >>
       /\ workers # << >>
          => workers[1].url = identifiers["comicwiki"] /\ workers[1].relevance = 0

C9_Witness ==
    /\ "comicwiki" \in DOMAIN identifiers
    /\ Len(workers) >= 3
    /\ workers[1].url = "u1"
    /\ workers[2].url # "u1"

\* C10: every record on the queue carries a relevance equal to the rank of its
\* candidate (its Python index in the candidate list), rank 0 included.
C10_RelevanceIsRank ==
    \A n \in 1..Len(result_queue) :
        /\ "source_relevance" \in DOMAIN result_queue[n]
        /\ result_queue[n].source_relevance = result_queue[n].by - 1

\* C12: a worker whose fetch failed (not found, timeout, other transport
\* error) or whose page did not parse has ended: it is not alive for the wait
\* loop, it has published no record and it never extracted anything.
C12_FailedFetchEndsQuietly ==
    \A k \in 1..Len(wstate) :
        wstate[k] = "abandoned"
        => /\ ~IsAlive(k)
           /\ PutsBy(k) = 0
           /\ k \notin DOMAIN wfields

\* identify has returned from its wait loop, no abort seen, after every worker
\* failed
C12_Witness ==
    /\ pc = "done"
    /\ ret = "all_finished"
    /\ Len(wstate) >= 2
    /\ \A k \in 1..Len(wstate) : wstate[k] = "abandoned"
    /\ result_queue = << >>

\* C17: a link equal to the comicwiki identifier the caller supplied is in the
\* candidate list once, and one Worker is made for it.
C17_Deduplicated ==
    "comicwiki" \in DOMAIN identifiers
    => /\ Cardinality({ i \in 1..Len(matches) : matches[i] = identifiers["comicwiki"] }) <= 1
       /\ Cardinality({ k \in 1..Len(workers) : workers[k].url = identifiers["comicwiki"] }) <= 1

\* C18 as stated: called with a title and abort already set, identify makes no
\* search fetch and starts no worker.
C18_NoFetchWhenAborted ==
    (abortSetAt = "before_call" /\ title # Falsy)
    => /\ fetchLog = << >>
       /\ \A k \in 1..Len(wstate) : wstate[k] = "new"

\* C18, amended: called with a title and abort already set, identify has made
\* the title search fetch by the time it returns, and it returns at the check
\* of line 91 (or by the exception of a search) without making a Worker.
C18_AbortSeenAfterSearches ==
    (abortSetAt = "before_call" /\ title # Falsy /\ pc = "done")
    => /\ Len(fetchLog) >= 1
       /\ fetchLog[1] = TitleQuery(title)
       /\ ret \in { "abort_before_spawn", "raised" }
       /\ workers = << >>

C18_Witness ==
    /\ abortSetAt = "before_call"
    /\ pc = "done"
    /\ ret = "abort_before_spawn"
    /\ Len(fetchLog) = 2
    /\ Len(matches) >= 2

\* C19: when identify has returned and its wait loop never read abort as set,
\* every Worker it made has ended and no record was put after the return, so
\* the queue holds all the records of the call.
C19_ReturnMeansAllDone ==
    (pc = "done" /\ ~abortSeen)
    => /\ \A k \in 1..Len(wstate) : wstate[k] \in { "dead", "abandoned" }
       /\ \A n \in 1..Len(result_queue) : ~result_queue[n].afterReturn
       /\ \A k \in 1..Len(wstate) : wstate[k] = "dead" => PutsBy(k) = 1

\* abort was set too late to be read
C19_Witness ==
    /\ pc = "done"
    /\ ret = "all_finished"
    /\ abort
    /\ ~abortSeen
    /\ Len(result_queue) >= 2

\* what each extraction step yields on a page, taken by itself
StepResults(body) ==
    [title |-> TitleStep(body.h1),
     authors |-> AuthorsStep(body.author, body.designer),
     isbn |-> IsbnStep(body.isbn),
     comments |-> CommentsStep(body.comment),
     cover_url |-> CoverStep(body.image),
     publisher |-> PublisherStep(body.publisher),
     series |-> SeriesStep(body.series),
     pubdate |-> PubDate(body.year)]

\* C11: a worker whose page was fetched and parsed publishes one record, in
\* which each of title, authors, isbn, comments, cover, publisher, series and
\* publication date is unset if its own step failed or found nothing and else
\* holds the value of its step, whatever the other steps did.
C11_FieldFailureIsolated ==
    /\ \A k \in DOMAIN wbody : PutsBy(k) = IF wstate[k] = "dead" THEN 1 ELSE 0
    /\ \A n \in 1..Len(result_queue) :
          LET rec == result_queue[n]
              st  == StepResults(wbody[rec.by])
          IN  \A f \in DOMAIN st :
                 IF st[f] = << >> THEN f \notin DOMAIN rec
                 ELSE f \in DOMAIN rec /\ rec[f] = st[f][1]

\* a record of a page on which the title, authors and date steps raised
C11_Witness ==
    \E n \in 1..Len(result_queue) :
        LET body == wbody[result_queue[n].by]
        IN  /\ body.h1.raises /\ body.author.raises /\ body.year.raises
            /\ ~body.isbn.raises /\ ~body.image.raises
            /\ DOMAIN result_queue[n] \cap { "title", "authors", "pubdate", "isbn", "cover_url" }
                  = { "isbn", "cover_url" }

\* C13: no record on the queue comes from a worker whose body held the 404
\* title marker.
C13_MarkerMeansNoRecord ==
    \A n \in 1..Len(result_queue) : ~HoldsMarker404(wbody[result_queue[n].by].raw)

\* the tokens of the release items that have a text
RECURSIVE ItemTokens(_)
ItemTokens(items) ==
    IF items = << >> THEN << >>
    ELSE (IF Head(items) = None THEN << >> ELSE YearTokens(Head(items)))
            \o ItemTokens(Tail(items))

\* C14: the publication date of a record is January 1 of the least integer
\* among the tokens of the release items, and it is unset only if no token is
\* an integer.
C14_PubdateIsMinYear ==
    \A n \in 1..Len(result_queue) :
        LET rec  == result_queue[n]
            q    == wbody[rec.by].year
            ints == SelectSeq(ItemTokens(q.nodes), IsInt)
        IN  ~q.raises
            => IF ints = << >> THEN "pubdate" \notin DOMAIN rec
               ELSE /\ "pubdate" \in DOMAIN rec
                    /\ rec.pubdate = [year |-> MinOf([i \in 1..Len(ints) |-> ToInt(ints[i])]),
                                       month |-> 1, day |-> 1]

\* the spawn loop is over and no Worker is alive
AllEnded == Phase(pc) = "wait" /\ \A k \in 1..Len(wstate) : ~IsAlive(k)

\* C15: once abort is set or every worker has ended, identify returns; a join
\* that ends with abort set is the last one (the wait loop has then read abort
\* and never joins again).
C15_WaitLoopEnds ==
    /\ (abort \/ AllEnded) ~> (pc = "done")
    /\ [][(pc = "join" /\ pc' # "join" /\ abort) => abortSeen']_vars
    /\ [](abortSeen => pc \in { "after_for", "while", "done" })

\* identify has returned on abort while a Worker is still running
C15_Witness ==
    /\ pc = "done"
    /\ ret = "abort_in_wait"
    /\ \E k \in 1..Len(wstate) : IsAlive(k)

\* C16: a call of download_cover puts at most one pair on its result queue,
\* none when no cover url was found, when abort was set at one of its two
\* checks or when the fetch of the image failed, and no exception leaves it.
C16_AtMostOneCoverNoException ==
    /\ Len(cover_queue) <= 1
    /\ dpc \in { "no_cover", "aborted", "fetch_failed" } => cover_queue = << >>
    /\ dpc # "raised"

\* the cache key of a record: its isbn, None without
KeyOf(mi) == IF "isbn" \in DOMAIN mi THEN mi.isbn ELSE None

====
